---- MODULE Spec2Model ----
(***************************************************************************)
(* TMC5160 configuration helpers: the microstep resolver of the two        *)
(* constructors, the encoder scale configuration, the ramp configuration   *)
(* and the rps -> internal unit conversions of helpers/Tmc5160_helpers.py  *)
(* (class Tmc5160) and helpers/config.py (class Tmc5160Config), plus the   *)
(* encoder_config.py script.                                               *)
(*                                                                         *)
(* Numbers.  Python computes these values in double precision.  The model  *)
(* computes the exact rational value of every expression: a rational is    *)
(* a record [n, d] in lowest terms, and a quotient whose numerator or      *)
(* denominator does not fit 32 bits (v * 2^24 / clk, a * 2^41 / clk^2) is  *)
(* produced bit by bit by long division, as its integer part and a flag    *)
(* saying whether a fractional part is left.                               *)
(***************************************************************************)
EXTENDS Integers, Sequences, FiniteSets, TLC

VARIABLES
    cls,                    \* which class the object is an instance of
    mres,                   \* raw MRES field read by __init__
    steps_per_turn,         \* self.steps_per_turn
    ckl_freq,               \* self.ckl_freq
    encoder_tick_per_turn,  \* self.encoder_tick_per_turn: None or Some(int)
    microsteps,             \* self.microsteps (a rational)
    op,                     \* the last call made on the object
    arg,                    \* its argument
    outcome,                \* "ok", or the exception it raised
    io,                     \* the collaborator calls it completed, in order
    ret,                    \* what it returned
    supplied                \* the tick value most recently supplied by the caller

vars == <<cls, mres, steps_per_turn, ckl_freq, encoder_tick_per_turn,
          microsteps, op, arg, outcome, io, ret, supplied>>

object == <<cls, mres, steps_per_turn, ckl_freq, microsteps>>

\* ---------------------------------------------------------------- bounds

\* MRES is read as an unsigned register field: codes 0..MaxMres are drawn.
MaxMres == 15

\* Encoder resolutions 1..MaxSmallTick are drawn beside the named ones.
MaxSmallTick == 7

\* ------------------------------------------------------------ arithmetic

None == <<>>

Some(x) == <<x>>

Abs(x) == IF x < 0 THEN -x ELSE x

Pow2(k) == 2 ^ k

RECURSIVE GCD(_, _)
GCD(a, b) == IF b = 0 THEN a ELSE GCD(b, a % b)

\* the rational n/d (d # 0) in lowest terms, with a positive denominator
Rat(n, d) ==
    LET g == GCD(Abs(n), Abs(d))
        s == IF d < 0 THEN -1 ELSE 1
    IN  [n |-> s * (n \div g), d |-> s * (d \div g)]

RInt(k) == [n |-> k, d |-> 1]

\* x * y, cross-reduced before the products are formed
RMul(x, y) ==
    LET a == Rat(x.n, y.d)
        b == Rat(y.n, x.d)
    IN  [n |-> a.n * b.n, d |-> a.d * b.d]

RDiv(x, y) == RMul(x, Rat(y.d, y.n))

RAdd(x, y) == Rat(x.n * y.d + y.n * x.d, x.d * y.d)

RSub(x, y) == RAdd(x, [n |-> -y.n, d |-> y.d])

\* Python's int() of a number: truncation towards zero
Trunc(x) == IF x.n < 0 THEN -((-x.n) \div x.d) ELSE x.n \div x.d

\* The number of bits by which a remainder below d may be shifted and still
\* fit a 32-bit integer.
RECURSIVE Room(_)
Room(d) == IF 2 * d >= Pow2(30) THEN 1 ELSE 1 + Room(2 * d)

Max3(a, b, c) ==
    IF a >= b /\ a >= c THEN a ELSE IF b >= c THEN b ELSE c

\* Long division of p * 2^k by d1, then d2, then d3, a digit of at most s bits
\* at a time: every stage shifts its remainder, takes its quotient digit in
\* from the stage before (zeros enter the first) and hands its own on; q
\* collects the last stage's digits.
RECURSIVE LongDivision(_, _, _, _, _, _, _, _, _)
LongDivision(k, s, d1, d2, d3, r1, r2, r3, q) ==
    IF k = 0 THEN [q |-> q, exact |-> r1 = 0 /\ r2 = 0 /\ r3 = 0]
    ELSE LET c  == IF k < s THEN k ELSE s
             t1 == r1 * Pow2(c)
             t2 == r2 * Pow2(c) + (t1 \div d1)
             t3 == r3 * Pow2(c) + (t2 \div d2)
         IN  LongDivision(k - c, s, d1, d2, d3,
                          t1 % d1, t2 % d2, t3 % d3, q * Pow2(c) + (t3 \div d3))

\* p * 2^k / (d1 * d2 * d3) for p >= 0 and positive divisors: the integer
\* part q and whether the quotient is exactly q.
DivChain(p, k, d1, d2, d3) ==
    LET q1 == p \div d1
        q2 == q1 \div d2
    IN  LongDivision(k, Room(Max3(d1, d2, d3)), d1, d2, d3,
                     p % d1, q1 % d2, q2 % d3, q2 \div d3)

\* a Python int result
IntNum(k) == [q |-> k, exact |-> TRUE]

\* ---------------------------------------------------------------- inputs

Classes == {"Tmc5160", "Tmc5160Config"}

StepsValues == {200, 400}

ClockValues == {12000000, 16000000}

TickValues == (1..MaxSmallTick) \cup {-10000, 0, 1000, 4096, 10000}

OptTicks == {None} \cup {Some(t) : t \in TickValues}

\* velocities in rps
Velocities == {Rat(0, 1), Rat(1, 20), Rat(3, 2), Rat(200, 1)}

\* accelerations in rps^2
Accelerations == {Rat(0, 1), Rat(7, 1), Rat(100, 1)}

\* config_ramper's parameters: the defaults of Tmc5160, the defaults of
\* Tmc5160Config with main.py's vmax=1.0, and a fast profile
RampProfiles ==
    { [vstart |-> Rat(1, 20), a1 |-> Rat(100, 1), v1 |-> Rat(7, 10),
       amax |-> Rat(70, 1), vmax |-> Rat(3, 2), dmax |-> Rat(60, 1),
       d1 |-> Rat(90, 1), vstop |-> Rat(1, 20)],
      [vstart |-> Rat(1, 20), a1 |-> Rat(10, 1), v1 |-> Rat(7, 10),
       amax |-> Rat(7, 1), vmax |-> Rat(1, 1), dmax |-> Rat(7, 1),
       d1 |-> Rat(10, 1), vstop |-> Rat(1, 20)],
      [vstart |-> Rat(0, 1), a1 |-> Rat(500, 1), v1 |-> Rat(50, 1),
       amax |-> Rat(300, 1), vmax |-> Rat(200, 1), dmax |-> Rat(200, 1),
       d1 |-> Rat(400, 1), vstop |-> Rat(1, 10)] }

NoArg == [tick |-> None, ramp |-> None, rps |-> None]

\* ------------------------------------------------------------ __init__

\* Resolve with the two special cases exchanged: a faulty resolver, which C2 must reject
Resolve_swapped(m) ==
    IF m = 0 THEN RInt(1)
    ELSE IF m = 8 THEN RInt(256)
    ELSE RDiv(RInt(256), RInt(Pow2(m)))

\* the microstep value __init__ derives from the MRES field
Resolve(m) ==
    IF m = 0 THEN RInt(256)
    ELSE IF m = 8 THEN RInt(1)
    ELSE RDiv(RInt(256), RInt(Pow2(m)))

Init ==
    /\ cls \in Classes
    /\ mres \in 0..MaxMres
    /\ steps_per_turn \in StepsValues
    /\ ckl_freq \in ClockValues
    /\ encoder_tick_per_turn \in OptTicks
    /\ microsteps = Resolve(mres)
    /\ op = "__init__"
    /\ arg = [NoArg EXCEPT !.tick = encoder_tick_per_turn]
    /\ outcome = "ok"
    /\ io = <<>>
    /\ ret = None
    /\ supplied = encoder_tick_per_turn

\* ------------------------------------------------- the collaborator

FieldWrite(field, value) ==
    [fn |-> "write_register_field", reg |-> field, val |-> value]

RegWrite(register, value) ==
    [fn |-> "write_register", reg |-> register, val |-> value]

\* A sequence of blocking writes of which the f-th raises (f = 0: none
\* does): the writes completed, and how the call ends.
Completed(ws, f) == IF f = 0 THEN ws ELSE SubSeq(ws, 1, f - 1)

Raised(f) == IF f = 0 THEN "ok" ELSE "TransportFailure"

\* ------------------------------------------------------ config_encoder

\* self.encoder_tick_per_turn after the replacement step
ReplaceTick(old, new) == IF old # None /\ new # None THEN new ELSE old

EncoderConstant(steps, micro, ticks) == RDiv(RMul(RInt(steps), micro), RInt(ticks))

EncoderConstantInteger(c) == Trunc(c)

\* the fraction scaled as the decimal mode scales it:
\* a faulty encoding, which C7 must reject
EncoderConstantFraction_decimal(c) ==
    Trunc(RMul(RSub(c, RInt(EncoderConstantInteger(c))), RInt(10)))

EncoderConstantFraction(c) ==
    Trunc(RDiv(RSub(c, RInt(EncoderConstantInteger(c))),
               RDiv(RInt(1), RInt(Pow2(16)))))

\* False (0) selects the Q16.16 mode
EncoderWrites(c) ==
    << FieldWrite("ENC_SEL_DECIMAL", 0),
       FieldWrite("INTEGER", EncoderConstantInteger(c)),
       FieldWrite("FRACTIONAL", EncoderConstantFraction(c)) >>

config_encoder(t, f) ==
    /\ op' = "config_encoder"
    /\ arg' = [NoArg EXCEPT !.tick = t]
    /\ supplied' = IF t # None THEN t ELSE supplied
    /\ ret' = None
    /\ UNCHANGED object
    /\ IF encoder_tick_per_turn = None /\ t = None
       THEN /\ f = 0
            /\ outcome' = "ValueError"
            /\ io' = <<>>
            /\ UNCHANGED encoder_tick_per_turn
       ELSE LET tick == ReplaceTick(encoder_tick_per_turn, t) IN
            /\ encoder_tick_per_turn' = tick
            /\ IF tick = None
               THEN /\ f = 0
                    /\ outcome' = "TypeError"
                    /\ io' = <<>>
               ELSE IF tick[1] = 0
               THEN /\ f = 0
                    /\ outcome' = "ZeroDivisionError"
                    /\ io' = <<>>
               ELSE LET ws == EncoderWrites(
                                EncoderConstant(steps_per_turn, microsteps, tick[1]))
                    IN  /\ outcome' = Raised(f)
                        /\ io' = Completed(ws, f)

\* ------------------------------------------------- encoder_config.py

encoder_config(f) ==
    /\ op' = "encoder_config.py"
    /\ arg' = NoArg
    /\ outcome' = Raised(f)
    /\ io' = Completed(EncoderWrites(RDiv(RInt(200 * 256), RInt(10000))), f)
    /\ ret' = None
    /\ UNCHANGED <<object, encoder_tick_per_turn, supplied>>

\* --------------------------------------------------------- conversions

\* x / (clk / 2 / 2^23) for a rational x >= 0
VelocityQuotient(x) == DivChain(x.n, 1 + 23, x.d, ckl_freq, 1)

\* (x * 2^24 * 512 * 256) / (clk * clk) for a rational x >= 0
AccelerationQuotient(x) == DivChain(x.n, 24 + 9 + 8, x.d, ckl_freq, ckl_freq)

Tmc5160_rps_velocity_to_internal_velocity(rps_velocity) ==
    LET mpt == RMul(microsteps, RInt(steps_per_turn))
        microstep_velocity == RMul(rps_velocity, mpt)
    IN  IntNum(VelocityQuotient(microstep_velocity).q)

Tmc5160_rps_acceleration_to_internal_acceleration(rps_acceleration) ==
    LET mpt == RAdd(microsteps, RInt(steps_per_turn))
        microstep_acceleration == RMul(rps_acceleration, mpt)
    IN  IntNum(AccelerationQuotient(microstep_acceleration).q)

Tmc5160Config_rps_velocity_to_internal_velocity(rps_velocity) ==
    LET mps == RAdd(microsteps, RInt(steps_per_turn))
        microstep_velocity == RDiv(rps_velocity, mps)
    IN  VelocityQuotient(microstep_velocity)

Tmc5160Config_rps_acceleration_to_internal_acceleration(rps_acceleration) ==
    LET mps == RAdd(microsteps, RInt(steps_per_turn))
        microstep_acceleration == RDiv(rps_acceleration, mps)
    IN  AccelerationQuotient(microstep_acceleration)

rps_velocity_to_internal_velocity(v) ==
    /\ op' = "rps_velocity_to_internal_velocity"
    /\ arg' = [NoArg EXCEPT !.rps = Some(v)]
    /\ outcome' = "ok"
    /\ io' = <<>>
    /\ ret' = Some(IF cls = "Tmc5160"
                   THEN Tmc5160_rps_velocity_to_internal_velocity(v)
                   ELSE Tmc5160Config_rps_velocity_to_internal_velocity(v))
    /\ UNCHANGED <<object, encoder_tick_per_turn, supplied>>

rps_acceleration_to_internal_acceleration(a) ==
    /\ op' = "rps_acceleration_to_internal_acceleration"
    /\ arg' = [NoArg EXCEPT !.rps = Some(a)]
    /\ outcome' = "ok"
    /\ io' = <<>>
    /\ ret' = Some(IF cls = "Tmc5160"
                   THEN Tmc5160_rps_acceleration_to_internal_acceleration(a)
                   ELSE Tmc5160Config_rps_acceleration_to_internal_acceleration(a))
    /\ UNCHANGED <<object, encoder_tick_per_turn, supplied>>

\* ------------------------------------------------------- config_ramper

Tmc5160_RampWrites(p) ==
    LET vstart_int == Tmc5160_rps_velocity_to_internal_velocity(p.vstart).q
        a1_int     == Tmc5160_rps_acceleration_to_internal_acceleration(p.a1).q
        v1_int     == Tmc5160_rps_velocity_to_internal_velocity(p.v1).q
        amax_int   == Tmc5160_rps_acceleration_to_internal_acceleration(p.amax).q
        vmax_int   == Tmc5160_rps_velocity_to_internal_velocity(p.vmax).q
        dmax_int   == Tmc5160_rps_acceleration_to_internal_acceleration(p.dmax).q
        d1_int     == Tmc5160_rps_acceleration_to_internal_acceleration(p.d1).q
        vstop_int  == Tmc5160_rps_velocity_to_internal_velocity(p.vstop).q
    IN  << RegWrite("A1", a1_int), RegWrite("V1", v1_int),
           RegWrite("D1", d1_int), RegWrite("DMAX", dmax_int),
           RegWrite("VSTART", vstart_int), RegWrite("VSTOP", vstop_int),
           RegWrite("AMAX", amax_int), RegWrite("VMAX", vmax_int) >>

Tmc5160Config_RampWrites(p) ==
    << RegWrite("A1", 1000), RegWrite("V1", 50000),
       RegWrite("D1", 500), RegWrite("DMAX", 500),
       RegWrite("VSTART", 0), RegWrite("VSTOP", 10),
       RegWrite("AMAX", 1000) >>

RampWrites(p) ==
    IF cls = "Tmc5160" THEN Tmc5160_RampWrites(p) ELSE Tmc5160Config_RampWrites(p)

config_ramper(p) ==
    LET ws == RampWrites(p) IN
    \E f \in 0..Len(ws) :
        /\ op' = "config_ramper"
        /\ arg' = [NoArg EXCEPT !.ramp = Some(p)]
        /\ outcome' = Raised(f)
        /\ io' = Completed(ws, f)
        /\ ret' = None
        /\ UNCHANGED <<object, encoder_tick_per_turn, supplied>>

\* ---------------------------------------------------------- rotate_rps

rotate_rps(rps_velocity) ==
    /\ cls = "Tmc5160"
    /\ op' = "rotate_rps"
    /\ arg' = [NoArg EXCEPT !.rps = Some(rps_velocity)]
    /\ outcome' = "ok"
    /\ io' = << [fn |-> "rotate", reg |-> "motor",
                 val |-> Tmc5160_rps_velocity_to_internal_velocity(rps_velocity).q] >>
    /\ ret' = None
    /\ UNCHANGED <<object, encoder_tick_per_turn, supplied>>

\* ------------------------------------------------------ specifications

\* config_encoder reads and writes encoder_tick_per_turn and never reads
\* ckl_freq; the conversions, config_ramper and rotate_rps read ckl_freq and
\* never touch encoder_tick_per_turn.  The two halves of the object are
\* explored apart, each over every class, MRES code and step count.

InitEncoder == Init /\ ckl_freq = 12000000

NextEncoder ==
    \/ \E t \in OptTicks, f \in 0..3 : config_encoder(t, f)
    \/ \E f \in 0..3 : encoder_config(f)

SpecEncoder == InitEncoder /\ [][NextEncoder]_vars

InitRamp == Init /\ encoder_tick_per_turn = Some(10000)

NextRamp ==
    \/ \E v \in Velocities : rps_velocity_to_internal_velocity(v)
    \/ \E a \in Accelerations : rps_acceleration_to_internal_acceleration(a)
    \/ \E p \in RampProfiles : config_ramper(p)
    \/ \E v \in Velocities : rotate_rps(v)

SpecRamp == InitRamp /\ [][NextRamp]_vars

\* -------------------------------------------------------------- claims

\* what the specification documents, for an object whose MRES code is valid

SpecTable == <<256, 128, 64, 32, 16, 8, 4, 2, 1>>

Spec_microsteps_per_turn == RMul(microsteps, RInt(steps_per_turn))

\* floor(v_rps * microsteps_per_turn * 2^24 / clock_frequency_hz)
Spec_internal_velocity(v) ==
    LET x == RMul(v, Spec_microsteps_per_turn)
    IN  DivChain(x.n, 24, x.d, ckl_freq, 1).q

\* floor(a_rps2 * microsteps_per_turn * 2^24 * 512 * 256 / clock_frequency_hz^2)
Spec_internal_acceleration(a) ==
    LET x == RMul(a, Spec_microsteps_per_turn)
    IN  DivChain(x.n, 41, x.d, ckl_freq, ckl_freq).q

ValidProfile == mres \in 0..8

\* C1: the acceleration conversion multiplies by microsteps_per_fullstep *
\* fullsteps_per_turn: for every valid profile and every a_rps2 >= 0 it
\* returns floor(a_rps2 * microsteps * steps * 2^24 * 512 * 256 / clk^2).
C1_AccelerationUsesProduct ==
    (op = "rps_acceleration_to_internal_acceleration" /\ ValidProfile)
        => ret = Some(IntNum(Spec_internal_acceleration(arg.rps[1])))

\* C2: for every MRES code 0..8 read at construction, self.microsteps is the
\* documented table entry 256, 128, 64, 32, 16, 8, 4, 2, 1.
C2_ResolverTable ==
    mres \in 0..8 => microsteps = RInt(SpecTable[mres + 1])

C2_Witness ==
    /\ op = "__init__"
    /\ mres = 4
    /\ microsteps = RInt(16)

\* C3: for every MRES code outside 0..8 construction fails with
\* InvalidResolutionCode, so that no object holding a microstep value for such
\* a code exists.
C3_InvalidResolutionCode ==
    mres \notin 0..8 => (op = "__init__" /\ outcome = "InvalidResolutionCode")

\* C4: a config_encoder call whose ticks_per_turn is zero or negative fails
\* before any of the three register-field writes (Python's ZeroDivisionError
\* is taken for the failure the claim names InvalidEncoderResolution).
C4_NonPositiveTicksRejected ==
    (/\ op = "config_encoder"
     /\ encoder_tick_per_turn # None
     /\ encoder_tick_per_turn[1] <= 0)
        => (/\ outcome \in {"InvalidEncoderResolution", "ZeroDivisionError"}
            /\ io = <<>>)

VelocityRegisters == {"VSTART", "V1", "VMAX", "VSTOP"}

AccelerationRegisters == {"A1", "AMAX", "D1", "DMAX"}

RegisterLimit(r) == IF r \in VelocityRegisters THEN Pow2(23) - 1 ELSE Pow2(24) - 1

\* C5: config_ramper never passes write_register a value outside its
\* register's range (2^23 - 1 for the velocities, 2^24 - 1 for the
\* accelerations): a converted value beyond it ends the call with
\* RegisterOverflow instead.
C5_RampRangeChecked ==
    op = "config_ramper"
        => \A i \in 1..Len(io) : io[i].val \in 0..RegisterLimit(io[i].reg)

\* the parameter of the ramp profile p that register r is named after
RampParameter(p, r) ==
    CASE r = "VSTART" -> p.vstart [] r = "V1" -> p.v1 [] r = "VMAX" -> p.vmax
      [] r = "VSTOP" -> p.vstop [] r = "A1" -> p.a1 [] r = "AMAX" -> p.amax
      [] r = "D1" -> p.d1 [] r = "DMAX" -> p.dmax

\* the object's own conversion of the parameter register r is named after
ConvertedParameter(p, r) ==
    IF r \in VelocityRegisters
    THEN IF cls = "Tmc5160"
         THEN Tmc5160_rps_velocity_to_internal_velocity(RampParameter(p, r))
         ELSE Tmc5160Config_rps_velocity_to_internal_velocity(RampParameter(p, r))
    ELSE IF cls = "Tmc5160"
         THEN Tmc5160_rps_acceleration_to_internal_acceleration(RampParameter(p, r))
         ELSE Tmc5160Config_rps_acceleration_to_internal_acceleration(RampParameter(p, r))

\* C6: a config_ramper call that completes has written each of the eight ramp
\* registers exactly once, with the conversion of the parameter the caller
\* supplied for it.
C6_RampWritesConverted ==
    (op = "config_ramper" /\ outcome = "ok")
        => \A r \in VelocityRegisters \cup AccelerationRegisters :
              /\ Cardinality({i \in 1..Len(io) : io[i].reg = r}) = 1
              /\ \A i \in 1..Len(io) :
                    io[i].reg = r
                        => IntNum(io[i].val) = ConvertedParameter(arg.ramp[1], r)

\* C7: for a valid profile and a positive ticks_per_turn with scale_ratio =
\* steps * microsteps / ticks below 65536, a completed encoder configuration
\* wrote the mode flag, integer_part = floor(scale_ratio) and fractional_part
\* = floor((scale_ratio - integer_part) * 65536), 0 <= fractional_part <=
\* 65535, which is 0 for an integral ratio, so that 0 <= scale_ratio -
\* (integer_part + fractional_part / 65536) < 1 / 65536; 200 * 256 / 10000
\* gives 5 and 7864.
C7_Q16Encoding ==
    /\ (/\ op = "config_encoder"
        /\ outcome = "ok"
        /\ ValidProfile
        /\ encoder_tick_per_turn[1] > 0
        /\ steps_per_turn * microsteps.n < 65536 * encoder_tick_per_turn[1])
        => LET N == steps_per_turn * microsteps.n
               t == encoder_tick_per_turn[1]
               I == io[2].val
               F == io[3].val
               R == N - I * t
           IN  /\ <<io[1].reg, io[2].reg, io[3].reg>>
                      = <<"ENC_SEL_DECIMAL", "INTEGER", "FRACTIONAL">>
               /\ I * t <= N /\ N < (I + 1) * t
               /\ F \in 0..65535
               /\ F * t <= R * 65536 /\ R * 65536 < (F + 1) * t
               /\ (R = 0 => F = 0)
               /\ (N = 51200 /\ t = 10000) => (I = 5 /\ F = 7864)
    /\ (op = "encoder_config.py" /\ outcome = "ok")
        => (io[2].val = 5 /\ io[3].val = 7864)

C7_Witness ==
    /\ op = "config_encoder"
    /\ outcome = "ok"
    /\ steps_per_turn = 200
    /\ mres = 0
    /\ encoder_tick_per_turn = Some(10000)
    /\ io[2].val = 5
    /\ io[3].val = 7864

\* C8: for every valid profile and v_rps >= 0 the velocity conversion returns
\* the integer floor(v_rps * microsteps * steps * 2^24 / clk); 1.5 rps at 200
\* steps, 256 microsteps and 12 MHz gives 107374.
C8_VelocityConversion ==
    (op = "rps_velocity_to_internal_velocity" /\ ValidProfile)
        => /\ ret = Some(IntNum(Spec_internal_velocity(arg.rps[1])))
           /\ (/\ steps_per_turn = 200
               /\ mres = 0
               /\ ckl_freq = 12000000
               /\ arg.rps[1] = Rat(3, 2)) => ret = Some(IntNum(107374))

\* C9: config_encoder writes ENC_SEL_DECIMAL (false), then INTEGER, then
\* FRACTIONAL, and a call in which a write fails after the first has
\* succeeded ends with the distinct condition PartialConfiguration (stated
\* for the calls made with a positive tick value).
C9_PartialConfiguration ==
    (/\ op = "config_encoder"
     /\ encoder_tick_per_turn # None
     /\ encoder_tick_per_turn[1] > 0)
        => /\ \A i \in 1..Len(io) :
                io[i].reg = <<"ENC_SEL_DECIMAL", "INTEGER", "FRACTIONAL">>[i]
           /\ Len(io) >= 1 => io[1].val = 0
           /\ (outcome # "ok" /\ Len(io) >= 1) => outcome = "PartialConfiguration"

\* C10: a config_encoder call for which the caller has supplied a positive
\* tick value (to this call, or else to an earlier call or the constructor)
\* performs the three encoder writes computed from the most recently supplied
\* value, unless the transport fails; the 'must provide' error is raised only
\* when no value was ever supplied.
C10_MostRecentTickUsed ==
    op = "config_encoder"
        => /\ (supplied # None /\ supplied[1] > 0 /\ outcome # "TransportFailure")
                => /\ outcome = "ok"
                   /\ io = EncoderWrites(
                              EncoderConstant(steps_per_turn, microsteps, supplied[1]))
           /\ outcome = "ValueError" => supplied = None

====
